---- MODULE Spec2Model ----
(***************************************************************************)
(* Model of the netpy Python scripts: the partner domain-filter builder,   *)
(* the computed-field catalog and the approval workflow of                 *)
(* Scripts/odoo_module_sample.py, and the script side that mutates a host  *)
(* object in Scripts/sample.py / Scripts/sample_test.py.                   *)
(*                                                                         *)
(* Python values that the code only passes along (criteria values, the     *)
(* env handle) are opaque tokens.  A Python dict is a sequence of          *)
(* <<key, value>> pairs with distinct keys, in insertion order.            *)
(***************************************************************************)
EXTENDS Integers, Sequences, FiniteSets, TLC

VARIABLES
    criteria,    \* the mapping handed to get_partner_domain_filter
    filterLog,   \* <<>> before the call, then <<[arg, domain]>>
    env,         \* the ORM environment: partner id -> current workflow state
    wfLog,       \* the calls of partner_approval_workflow, oldest first
    recA,        \* a partner record given to a compute function
    recB,        \* a second partner record given to the same function
    fieldLog,    \* <<>> before the evaluation, then <<[field, valA, valB]>>
    obj,         \* the attributes of the host object: name -> value
    pre,         \* the attributes of the host object before the last operation
    op,          \* <<>> before any operation, then <<the last operation>>
    written,     \* name -> the value last written to it by the script side
    mutable      \* the property descriptors: declared name -> mutable flag

vars == <<criteria, filterLog, env, wfLog, recA, recB, fieldLog,
          obj, pre, op, written, mutable>>

filterVars == <<criteria, filterLog>>
wfVars == <<env, wfLog>>
fieldVars == <<recA, recB, fieldLog>>
objVars == <<obj, pre, op, written, mutable>>

(***************************************************************************)
(* Bounds.                                                                 *)
(***************************************************************************)
MaxCriteria == 3     \* most keys in a criteria mapping
MaxCalls == 2        \* most workflow calls in a run
MaxId == 2           \* record ids are 1..MaxId, partner ids likewise
MaxTick == 2         \* clock readings are 1..MaxTick

(***************************************************************************)
(* Python dict operations on a sequence of <<key, value>> pairs.           *)
(***************************************************************************)
None == "None"

HasKey(d, k) == \E i \in 1..Len(d) : d[i][1] = k

GetItem(d, k) == d[CHOOSE i \in 1..Len(d) : d[i][1] = k][2]

DictGet(d, k) == IF HasKey(d, k) THEN GetItem(d, k) ELSE None

DictKeys(d) == {d[i][1] : i \in 1..Len(d)}

IsDict(d) == \A i, j \in 1..Len(d) : d[i][1] = d[j][1] => i = j

(***************************************************************************)
(* get_partner_domain_filter                                               *)
(***************************************************************************)
CriteriaKeys == {"is_company", "country", "name", "email", "city"}
CriteriaValues == {"US", "Acme"}

CriteriaSet ==
    {d \in UNION {[1..n -> CriteriaKeys \X CriteriaValues] : n \in 0..MaxCriteria} :
        IsDict(d)}

\* mutant: the clauses follow the insertion order of the mapping
RECURSIVE filter_in_input_order(_)
filter_in_input_order(c) ==
    IF c = <<>> THEN <<>>
    ELSE LET k == c[1][1]
             v == c[1][2]
             clause == IF k = "is_company" THEN << <<"is_company", "=", v>> >>
                       ELSE IF k = "country" THEN << <<"country_id", "=", v>> >>
                       ELSE IF k = "name" THEN << <<"name", "ilike", v>> >>
                       ELSE <<>>
         IN  clause \o filter_in_input_order(Tail(c))

\* mutant: the country clause filters on the field "country"
filter_country_field(c) ==
    LET d0 == <<>>
        d1 == IF HasKey(c, "is_company")
              THEN Append(d0, <<"is_company", "=", GetItem(c, "is_company")>>)
              ELSE d0
        d2 == IF HasKey(c, "country")
              THEN Append(d1, <<"country", "=", GetItem(c, "country")>>)
              ELSE d1
        d3 == IF HasKey(c, "name")
              THEN Append(d2, <<"name", "ilike", GetItem(c, "name")>>)
              ELSE d2
    IN  d3

\* mutant: any key that is not is_company or country is taken for the name
filter_else_name(c) ==
    LET d0 == <<>>
        d1 == IF HasKey(c, "is_company")
              THEN Append(d0, <<"is_company", "=", GetItem(c, "is_company")>>)
              ELSE d0
        d2 == IF HasKey(c, "country")
              THEN Append(d1, <<"country_id", "=", GetItem(c, "country")>>)
              ELSE d1
        d3 == IF \E k \in DictKeys(c) : k \notin {"is_company", "country"}
              THEN Append(d2, <<"name", "ilike",
                       GetItem(c, CHOOSE k \in DictKeys(c) :
                                      k \notin {"is_company", "country"})>>)
              ELSE d2
    IN  d3

get_partner_domain_filter(c) ==
    LET d0 == <<>>
        d1 == IF HasKey(c, "is_company")
              THEN Append(d0, <<"is_company", "=", GetItem(c, "is_company")>>)
              ELSE d0
        d2 == IF HasKey(c, "country")
              THEN Append(d1, <<"country_id", "=", GetItem(c, "country")>>)
              ELSE d1
        d3 == IF HasKey(c, "name")
              THEN Append(d2, <<"name", "ilike", GetItem(c, "name")>>)
              ELSE d2
    IN  d3

InitFilter ==
    /\ criteria \in CriteriaSet
    /\ filterLog = <<>>

GetPartnerDomainFilter ==
    /\ filterLog = <<>>
    /\ filterLog' = <<[arg |-> criteria,
                       domain |-> get_partner_domain_filter(criteria)]>>
    /\ UNCHANGED <<criteria, wfVars, fieldVars, objVars>>

(***************************************************************************)
(* partner_approval_workflow                                               *)
(***************************************************************************)
PartnerIds == 1..MaxId
WorkflowStates == {None, "approved", "rejected", "under_review"}
Actions == {"approve", "reject", "review", "cancel", "approved", ""}

\* mutant: an unknown action falls back to the review state
workflow_default_state(e, partner_id, action) ==
    LET transitions == << <<"approve", "approved">>,
                          <<"reject", "rejected">>,
                          <<"review", "under_review">> >>
        new_state == IF HasKey(transitions, action)
                     THEN GetItem(transitions, action)
                     ELSE "under_review"
    IN  [partner_id |-> partner_id,
         action |-> action,
         new_state |-> new_state,
         success |-> new_state # None]

\* mutant: approve is guarded by the partner's current state
workflow_guarded(e, partner_id, action) ==
    LET transitions == << <<"approve", "approved">>,
                          <<"reject", "rejected">>,
                          <<"review", "under_review">> >>
        new_state == IF action = "approve" /\ e[partner_id] # "under_review"
                     THEN None
                     ELSE DictGet(transitions, action)
    IN  [partner_id |-> partner_id,
         action |-> action,
         new_state |-> new_state,
         success |-> new_state # None]

partner_approval_workflow(e, partner_id, action) ==
    LET transitions == << <<"approve", "approved">>,
                          <<"reject", "rejected">>,
                          <<"review", "under_review">> >>
        new_state == DictGet(transitions, action)
    IN  [partner_id |-> partner_id,
         action |-> action,
         new_state |-> new_state,
         success |-> new_state # None]

InitWorkflow ==
    /\ env \in [PartnerIds -> WorkflowStates]
    /\ wfLog = <<>>

PartnerApprovalWorkflow ==
    /\ Len(wfLog) < MaxCalls
    /\ \E partner_id \in PartnerIds, action \in Actions :
          wfLog' = Append(wfLog,
                          [partner_id |-> partner_id,
                           action |-> action,
                           result |-> partner_approval_workflow(env, partner_id, action)])
    /\ UNCHANGED <<env, filterVars, fieldVars, objVars>>

(***************************************************************************)
(* create_computed_fields                                                  *)
(***************************************************************************)
Digit(d) ==
    CASE d = 0 -> "0" [] d = 1 -> "1" [] d = 2 -> "2" [] d = 3 -> "3"
      [] d = 4 -> "4" [] d = 5 -> "5" [] d = 6 -> "6" [] d = 7 -> "7"
      [] d = 8 -> "8" [] d = 9 -> "9"

RECURSIVE NatToStr(_)
NatToStr(n) == IF n < 10 THEN Digit(n) ELSE NatToStr(n \div 10) \o Digit(n % 10)

\* str(int), as the f-string formats record.Id
IntToStr(n) == IF n < 0 THEN "-" \o NatToStr(-n) ELSE NatToStr(n)

Records ==
    [Id : 1..MaxId, Name : {"Acme", "Bolt"},
     Street : {"1 Main St", "2 Side St"}, City : {"Oslo", "Rome"}]

create_computed_fields ==
    [display_name |->
        [compute |-> [record \in Records |->
                         record.Name \o " (" \o IntToStr(record.Id) \o ")"],
         depends |-> <<"name">>],
     full_address |->
        [compute |-> [record \in Records |->
                         record.Street \o ", " \o record.City],
         depends |-> <<"street", "city">>]]

\* the record attribute that a dependency name stands for
FieldAttr(dep) ==
    CASE dep = "name" -> "Name" [] dep = "street" -> "Street" [] dep = "city" -> "City"

InitFields ==
    /\ recA \in Records
    /\ recB \in Records
    /\ fieldLog = <<>>

EvaluateComputedField ==
    /\ fieldLog = <<>>
    /\ \E f \in DOMAIN create_computed_fields :
          fieldLog' = <<[field |-> f,
                         valA |-> create_computed_fields[f].compute[recA],
                         valB |-> create_computed_fields[f].compute[recB]]>>
    /\ UNCHANGED <<recA, recB, filterVars, wfVars, objVars>>

(***************************************************************************)
(* The host object and the script side: process_dotnet_object              *)
(***************************************************************************)
CounterValue == 42
ModifiedMessage == "Modified by Python"

DeclaredNames == {"Message", "Counter", "Timestamp", "IsProcessed"}
AttrNames == DeclaredNames \cup {"Note"}

Ticks == 1..MaxTick

\* the values a script writes to an attribute
AttrValues(name) ==
    CASE name = "Message" -> {"Original from .NET", "Original", ModifiedMessage}
      [] name = "Counter" -> {0, 7, CounterValue}
      [] name = "Timestamp" -> Ticks
      [] name = "IsProcessed" -> BOOLEAN
      [] OTHER -> {"memo"}

\* the object as its constructor leaves it, at clock reading now
MockDotNetObject(now) ==
    [Message |-> "Original from .NET", Counter |-> 0,
     Timestamp |-> now, IsProcessed |-> FALSE]

\* the states the host can hand the object over in
HostObjects ==
    [Message : AttrValues("Message"), Counter : AttrValues("Counter"),
     Timestamp : Ticks, IsProcessed : BOOLEAN]

\* mutant: every write also marks the object as processed
setattr_marks_processed(o, name, value) ==
    [n \in DOMAIN o \cup {name} |->
        IF n = name THEN value ELSE IF n = "IsProcessed" THEN TRUE ELSE o[n]]

\* mutant: a write to Counter is dropped
setattr_drops_counter(o, name, value) ==
    [n \in DOMAIN o \cup {name} |->
        IF n = name /\ n # "Counter" THEN value ELSE o[n]]

\* obj.name = value on a Python instance: binds the name, new or not
setattr(o, name, value) ==
    [n \in DOMAIN o \cup {name} |-> IF n = name THEN value ELSE o[n]]

\* obj.name on a Python instance
getattr(o, name) == o[name]

\* mutant: the message is read before the writes and returned
process_returns_original(dotnet_obj, now) ==
    LET o1 == setattr(dotnet_obj, "Message", ModifiedMessage)
        o2 == setattr(o1, "Counter", CounterValue)
        o3 == setattr(o2, "Timestamp", now)
        o4 == setattr(o3, "IsProcessed", TRUE)
    IN  [obj |-> o4, ret |-> getattr(dotnet_obj, "Message")]

process_dotnet_object(dotnet_obj, now) ==
    LET o1 == setattr(dotnet_obj, "Message", ModifiedMessage)
        o2 == setattr(o1, "Counter", CounterValue)
        o3 == setattr(o2, "Timestamp", now)
        o4 == setattr(o3, "IsProcessed", TRUE)
    IN  [obj |-> o4, ret |-> getattr(o4, "Message")]

InitMock ==
    /\ obj \in HostObjects \cup {MockDotNetObject(now) : now \in Ticks}
    /\ pre = obj
    /\ op = <<>>
    /\ written = <<>>
    /\ mutable = [n \in DeclaredNames |-> TRUE]

\* dotnet_obj.name = value, one assignment of the script side
SetAttr ==
    /\ \E name \in AttrNames :
       \E value \in AttrValues(name) :
          /\ obj' = setattr(obj, name, value)
          /\ written' = [n \in DOMAIN written \cup {name} |->
                            IF n = name THEN value ELSE written[n]]
          /\ op' = <<[kind |-> "write", name |-> name, value |-> value, error |-> None]>>
    /\ pre' = obj
    /\ UNCHANGED <<mutable, filterVars, wfVars, fieldVars>>

\* dotnet_obj.name, one read of the script side
GetAttr ==
    /\ \E name \in DOMAIN obj :
          op' = <<[kind |-> "read", name |-> name,
                   value |-> getattr(obj, name), error |-> None]>>
    /\ pre' = obj
    /\ UNCHANGED <<obj, written, mutable, filterVars, wfVars, fieldVars>>

ProcessDotnetObject ==
    /\ \E now \in Ticks :
          LET r == process_dotnet_object(obj, now)
          IN  /\ obj' = r.obj
              /\ written' = [n \in DOMAIN written \cup DeclaredNames |->
                                IF n \in DeclaredNames THEN r.obj[n] ELSE written[n]]
              /\ op' = <<[kind |-> "process", name |-> "Message",
                          value |-> r.ret, error |-> None]>>
    /\ pre' = obj
    /\ UNCHANGED <<mutable, filterVars, wfVars, fieldVars>>

(***************************************************************************)
(* The bridge contract: property descriptors, writeProperty, readProperty. *)
(* Values are of the declared type of the property they are written to.    *)
(***************************************************************************)
ReadOnlyPropertyError == "ReadOnlyPropertyError"

\* mutant: the value is committed before the descriptor is looked at
writeProperty_commits_first(h, m, name, value) ==
    [obj |-> [h EXCEPT ![name] = value],
     error |-> IF m[name] THEN None ELSE ReadOnlyPropertyError]

writeProperty(h, m, name, value) ==
    IF ~m[name]
    THEN [obj |-> h, error |-> ReadOnlyPropertyError]
    ELSE [obj |-> [h EXCEPT ![name] = value], error |-> None]

readProperty(h, name) == h[name]

InitBridge ==
    /\ obj \in HostObjects
    /\ pre = obj
    /\ op = <<>>
    /\ written = <<>>
    /\ mutable \in [DeclaredNames -> BOOLEAN]

WriteProperty ==
    /\ \E name \in DeclaredNames :
       \E value \in AttrValues(name) :
          LET r == writeProperty(obj, mutable, name, value)
          IN  /\ obj' = r.obj
              /\ written' = IF r.error = None
                            THEN [n \in DOMAIN written \cup {name} |->
                                     IF n = name THEN value ELSE written[n]]
                            ELSE written
              /\ op' = <<[kind |-> "write", name |-> name,
                          value |-> value, error |-> r.error]>>
    /\ pre' = obj
    /\ UNCHANGED <<mutable, filterVars, wfVars, fieldVars>>

ReadProperty ==
    /\ \E name \in DeclaredNames :
          op' = <<[kind |-> "read", name |-> name,
                   value |-> readProperty(obj, name), error |-> None]>>
    /\ pre' = obj
    /\ UNCHANGED <<obj, written, mutable, filterVars, wfVars, fieldVars>>

(***************************************************************************)
(* Specifications, one per component; the other components stand idle.     *)
(***************************************************************************)
IdleFilter == criteria = <<>> /\ filterLog = <<>>
IdleWorkflow == env = [p \in PartnerIds |-> None] /\ wfLog = <<>>
IdleFields ==
    /\ recA = [Id |-> 1, Name |-> "Acme", Street |-> "1 Main St", City |-> "Oslo"]
    /\ recB = recA
    /\ fieldLog = <<>>
IdleObject ==
    /\ obj = MockDotNetObject(1)
    /\ pre = obj
    /\ op = <<>>
    /\ written = <<>>
    /\ mutable = [n \in DeclaredNames |-> TRUE]

InitSpecFilter == InitFilter /\ IdleWorkflow /\ IdleFields /\ IdleObject
NextFilter == GetPartnerDomainFilter
SpecFilter == InitSpecFilter /\ [][NextFilter]_vars

InitSpecWorkflow == InitWorkflow /\ IdleFilter /\ IdleFields /\ IdleObject
NextWorkflow == PartnerApprovalWorkflow
SpecWorkflow == InitSpecWorkflow /\ [][NextWorkflow]_vars

InitSpecFields == InitFields /\ IdleFilter /\ IdleWorkflow /\ IdleObject
NextFields == EvaluateComputedField
SpecFields == InitSpecFields /\ [][NextFields]_vars

InitSpecMock == InitMock /\ IdleFilter /\ IdleWorkflow /\ IdleFields
NextMock == SetAttr \/ GetAttr \/ ProcessDotnetObject
SpecMock == InitSpecMock /\ [][NextMock]_vars

InitSpecBridge == InitBridge /\ IdleFilter /\ IdleWorkflow /\ IdleFields
NextBridge == WriteProperty \/ ReadProperty
SpecBridge == InitSpecBridge /\ [][NextBridge]_vars

(***************************************************************************)
(* Properties of get_partner_domain_filter (SpecFilter)                    *)
(***************************************************************************)
RecognizedOrder == <<"is_company", "country", "name">>
Recognized == {RecognizedOrder[i] : i \in 1..Len(RecognizedOrder)}

ClauseOf(k, v) ==
    CASE k = "is_company" -> <<"is_company", "=", v>>
      [] k = "country" -> <<"country_id", "=", v>>
      [] k = "name" -> <<"name", "ilike", v>>

\* the criteria key a clause's field stands for
KeyOfField(field) == IF field = "country_id" THEN "country" ELSE field

\* where key k was inserted in mapping c
PosOf(c, k) == CHOOSE p \in 1..Len(c) : c[p][1] = k

\* c[k] = v, as a dict stores it: in place if k is there, else at the end
WithKey(c, k, v) ==
    IF \E p \in 1..Len(c) : c[p][1] = k
    THEN [p \in 1..Len(c) |-> IF c[p][1] = k THEN <<k, v>> ELSE c[p]]
    ELSE Append(c, <<k, v>>)

\* del c[k]
WithoutKey(c, k) == SelectSeq(c, LAMBDA kv : kv[1] # k)

\* C1: the returned clauses are exactly those of the keys is_company,
\* country, name that are present in criteria, in that fixed order, each
\* carrying the criteria value unchanged; no clause for an absent key.
C1_ExactClausesFixedOrder ==
    \A n \in 1..Len(filterLog) :
        LET c == filterLog[n].arg
            d == filterLog[n].domain
            present == SelectSeq(RecognizedOrder,
                                 LAMBDA k : \E p \in 1..Len(c) : c[p][1] = k)
        IN  /\ Len(d) = Len(present)
            /\ \A j \in 1..Len(present) :
                  \E p \in 1..Len(c) :
                      /\ c[p][1] = present[j]
                      /\ d[j] = ClauseOf(present[j], c[p][2])

C1_Witness ==
    /\ filterLog # <<>>
    /\ filterLog[1].arg = << <<"name", "Acme">>, <<"email", "US">>, <<"is_company", "US">> >>
    /\ filterLog[1].domain = << <<"is_company", "=", "US">>, <<"name", "ilike", "Acme">> >>

\* C2 as stated: the order of the clauses matches the order in which the
\* criteria keys were supplied in the criteria mapping.
C2_OrderAsSupplied ==
    \A n \in 1..Len(filterLog) :
        LET c == filterLog[n].arg
            d == filterLog[n].domain
        IN  \A i, j \in 1..Len(d) :
                i < j => PosOf(c, KeyOfField(d[i][1])) < PosOf(c, KeyOfField(d[j][1]))

\* C2 amended: the order of the clauses is the fixed key-check order
\* is_company, country, name, whatever order the keys were supplied in.
C2_OrderAsChecked ==
    \A n \in 1..Len(filterLog) :
        LET d == filterLog[n].domain
            Rank(field) == CHOOSE r \in 1..Len(RecognizedOrder) :
                               RecognizedOrder[r] = KeyOfField(field)
        IN  \A i, j \in 1..Len(d) : i < j => Rank(d[i][1]) < Rank(d[j][1])

C2_Witness ==
    /\ filterLog # <<>>
    /\ filterLog[1].arg = << <<"name", "Acme">>, <<"country", "US">> >>
    /\ filterLog[1].domain = << <<"country_id", "=", "US">>, <<"name", "ilike", "Acme">> >>

\* C3: no clause comes from a key other than is_company, country, name:
\* setting or deleting an unrecognized key in criteria leaves the returned
\* sequence unchanged, and criteria without a recognized key give <<>>.
C3_UnrecognizedKeysIgnored ==
    \A n \in 1..Len(filterLog) :
        LET c == filterLog[n].arg
            d == filterLog[n].domain
        IN  /\ \A j \in 1..Len(d) :
                  /\ KeyOfField(d[j][1]) \in Recognized
                  /\ \E p \in 1..Len(c) : c[p][1] = KeyOfField(d[j][1])
            /\ \A k \in CriteriaKeys \ Recognized :
                  /\ get_partner_domain_filter(WithoutKey(c, k)) = d
                  /\ \A v \in CriteriaValues :
                        get_partner_domain_filter(WithKey(c, k, v)) = d
            /\ (\A p \in 1..Len(c) : c[p][1] \notin Recognized) => d = <<>>

C3_Witness ==
    /\ filterLog # <<>>
    /\ filterLog[1].arg = << <<"email", "Acme">>, <<"city", "US">> >>
    /\ filterLog[1].domain = <<>>

(***************************************************************************)
(* Properties of partner_approval_workflow (SpecWorkflow)                  *)
(***************************************************************************)
\* C4: success is true exactly for approve, reject, review, with new_state
\* approved, rejected, under_review; any other action gives success false
\* and new_state None; the returned action equals the input action.
C4_TableMembership ==
    \A n \in 1..Len(wfLog) :
        LET a == wfLog[n].action
            r == wfLog[n].result
        IN  /\ r.action = a
            /\ r.success <=> a \in {"approve", "reject", "review"}
            /\ a = "approve" => r.new_state = "approved"
            /\ a = "reject" => r.new_state = "rejected"
            /\ a = "review" => r.new_state = "under_review"
            /\ a \notin {"approve", "reject", "review"} => r.new_state = None

C4_Witness ==
    /\ Len(wfLog) = 2
    /\ wfLog[1].action = "cancel" /\ wfLog[1].result.success = FALSE
    /\ wfLog[2].action = "review" /\ wfLog[2].result.new_state = "under_review"

\* what a first call returns for each action, over every env and partner_id
FirstCallOutcomes ==
    [a \in Actions |->
        {<<partner_approval_workflow(e, p, a).new_state,
           partner_approval_workflow(e, p, a).success>> :
             e \in [PartnerIds -> WorkflowStates], p \in PartnerIds}]

\* C10: new_state and success of every call depend only on its action
\* token: they are those of any other call with that action in the run, and
\* those of a first call with that action under any env and partner_id.
C10_StatelessClassifier ==
    \A n \in 1..Len(wfLog) :
        LET r == wfLog[n].result
        IN  /\ \A m \in 1..Len(wfLog) :
                  wfLog[m].action = wfLog[n].action =>
                      /\ wfLog[m].result.new_state = r.new_state
                      /\ wfLog[m].result.success = r.success
            /\ FirstCallOutcomes[wfLog[n].action] = {<<r.new_state, r.success>>}

C10_Witness ==
    /\ Len(wfLog) = 2
    /\ wfLog[1].action = "reject" /\ wfLog[2].action = "approve"
    /\ wfLog[1].partner_id = wfLog[2].partner_id
    /\ env[wfLog[2].partner_id] = "rejected"
    /\ wfLog[2].result.new_state = "approved"

(***************************************************************************)
(* Properties of create_computed_fields (SpecFields)                       *)
(***************************************************************************)
\* C5: a compute function depends only on the fields listed in its
\* dependencies: two records that agree on them give the same value.
C5_ComputeDependsOnlyOnDepends ==
    \A n \in 1..Len(fieldLog) :
        LET deps == create_computed_fields[fieldLog[n].field].depends
        IN  (\A i \in 1..Len(deps) : recA[FieldAttr(deps[i])] = recB[FieldAttr(deps[i])])
                => fieldLog[n].valA = fieldLog[n].valB

(***************************************************************************)
(* Properties of the script side on the host object (SpecMock)             *)
(***************************************************************************)
\* C6: a read of a declared property returns the value last written to
\* it; process_dotnet_object leaves Message = "Modified by Python",
\* Counter = 42, IsProcessed = true and returns the message it wrote.
C6_RoundTrip ==
    \A n \in 1..Len(op) :
        /\ (op[n].kind = "read" /\ op[n].name \in DeclaredNames
                /\ op[n].name \in DOMAIN written)
              => op[n].value = written[op[n].name]
        /\ op[n].kind = "write" => getattr(obj, op[n].name) = op[n].value
        /\ op[n].kind = "process" =>
              /\ obj.Message = ModifiedMessage
              /\ obj.Counter = CounterValue
              /\ obj.IsProcessed = TRUE
              /\ op[n].value = ModifiedMessage

C6_Witness ==
    /\ op # <<>>
    /\ op[1].kind = "process"
    /\ pre.Message = "Original from .NET" /\ pre.Counter = 0 /\ pre.IsProcessed = FALSE
    /\ op[1].value = ModifiedMessage

\* C8: after a write by the script side the host object has the same
\* property names as before it.
C8_NoNewProperties ==
    \A n \in 1..Len(op) : DOMAIN obj = DOMAIN pre

\* C9: a single write to property p changes only p: every other property
\* reads the same value after the write as before it.
C9_WriteFrame ==
    \A n \in 1..Len(op) :
        op[n].kind = "write" =>
            \A q \in DOMAIN pre \ {op[n].name} : getattr(obj, q) = pre[q]

C9_Witness ==
    /\ op # <<>>
    /\ op[1].kind = "write" /\ op[1].name = "Counter"
    /\ pre.Message = "Original" /\ pre.Counter = 0 /\ pre.IsProcessed = FALSE
    /\ obj.Counter = CounterValue /\ obj.Message = "Original" /\ obj.IsProcessed = FALSE

(***************************************************************************)
(* Properties of the bridge contract (SpecBridge)                          *)
(***************************************************************************)
\* C7: a write to a property whose descriptor marks it read-only fails
\* with ReadOnlyPropertyError and leaves the host object as it was.
C7_ReadOnlyWriteFails ==
    \A n \in 1..Len(op) :
        (op[n].kind = "write" /\ ~mutable[op[n].name]) =>
            /\ op[n].error = ReadOnlyPropertyError
            /\ obj = pre

C7_Witness ==
    /\ op # <<>>
    /\ op[1].kind = "write" /\ op[1].name = "Counter"
    /\ ~mutable["Counter"]
    /\ op[1].value = CounterValue /\ pre.Counter = 0
    /\ op[1].error = ReadOnlyPropertyError

====
